---- MODULE Spec2Model ----
(***************************************************************************)
(* The three embedding assets of project_ask_ai_dagster/assets/ingestion.py *)
(* (github_issues_embeddings, github_discussions_embeddings,               *)
(* docs_embedding) as a state machine over the Pinecone index they share.  *)
(*                                                                         *)
(* A Document is [page_content |-> text, metadata |-> dict]; a Python dict *)
(* is the sequence of its entries in insertion order, an entry is          *)
(* [k |-> key, v |-> [type |-> Python type name, val |-> repr]].           *)
(* One action is one materialisation of an asset: the whole function body, *)
(* from create_index to the returned MaterializeResult or the exception    *)
(* that leaves it.                                                         *)
(***************************************************************************)
EXTENDS Integers, Sequences, FiniteSets, TLC

VARIABLES
    indexes,        \* the Pinecone indexes that exist: records [name, dimension]
    store,          \* namespace -> (record id -> [vector, metadata]) of index dagster-knowledge
    log,            \* the runs so far, each the observable record of one materialisation
    doc_metadata,   \* a metadata dict handed to the sanitizing comprehension
    meta            \* what the comprehension made of it, [done, value]

vars == <<indexes, store, log, doc_metadata, meta>>

(* ------------------------------ bounds -------------------------------- *)

\* Number of materialisations in one behaviour.
MaxRuns == 2

\* Number of entries (and of distinct keys) of a metadata dict handed to the
\* sanitizing comprehension on its own.
MaxEntries == 3

\* The embedding provider may raise on its k-th call of a run, k \in 1..MaxCalls.
MaxCalls == 3

(* -------------------------- program constants ------------------------- *)

BATCH_SIZE == 20

EMBED_DIM == 1536

INDEX_NAME == "dagster-knowledge"

GITHUB_NAMESPACE == "dagster-github"

\* The namespace of docs_embedding set to the one the GitHub assets use.
DOCS_NAMESPACE_Shared == "dagster-github"

DOCS_NAMESPACE == "dagster-docs"

Namespaces == {GITHUB_NAMESPACE, DOCS_NAMESPACE}

(* ------------------------------ helpers ------------------------------- *)

Min(a, b) == IF a <= b THEN a ELSE b

\* Python s[i:j] for 0 <= i <= j (zero-based, end exclusive, clipped).
Slice(s, i, j) == SubSeq(s, i + 1, Min(j, Len(s)))

\* Python str(i) for a non-negative int.
Str(i) == ToString(i)

(* ------------------------------ metadata ------------------------------ *)

\* The type test with None let through.
IsPrimitiveKeepNone(v) == v.type \in {"str", "int", "float", "bool", "NoneType"}

\* isinstance(v, (str, int, float, bool))
IsPrimitive(v) == v.type \in {"str", "int", "float", "bool"}

KeepEntry(e) == IsPrimitive(e.v)

\* {k: v for k, v in doc.metadata.items() if isinstance(v, (str, int, float, bool))}
Sanitize(dict) == SelectSeq(dict, KeepEntry)

HasKey(dict, key) == \E j \in 1..Len(dict) : dict[j].k = key

\* dict[key], for a key the dict has (keys of a dict are unique).
Lookup(dict, key) == dict[CHOOSE j \in 1..Len(dict) : dict[j].k = key].v

(* --------------------------- the provider ----------------------------- *)

\* The vector the provider returns for a text: an opaque value of the model's
\* dimension that depends on the text and on nothing else.
Embed(text) == [of |-> text, dim |-> EMBED_DIM]

\* [item.embedding for item in client.embeddings.create(model=..., input=texts).data]
\* for an order-preserving provider: one vector per text, in input order.
Create(texts) == [j \in 1..Len(texts) |-> Embed(texts[j])]

(* ---------------------------- identifiers ----------------------------- *)

\* Ids counted from one: range(1, n + 1).
SeqIdsOneBased(n) == [j \in 1..n |-> Str(j)]

\* [str(i) for i in range(n)]
SeqIds(n) == [j \in 1..n |-> Str(j - 1)]

\* hashlib.md5(url.encode()).hexdigest(): a function of the URL alone, taken
\* to be injective (no two URLs of the model collide).
MD5(url) == "md5(" \o url \o ")"

\* doc.metadata["source"] raises KeyError when the key is absent, and
\* .encode() raises AttributeError when the value is no str.
DocIdRaises(doc) ==
    \/ ~HasKey(doc.metadata, "source")
    \/ Lookup(doc.metadata, "source").type # "str"

\* The id hashed from the page text instead of the source URL.
DocIdByContent(doc) == MD5(doc.page_content)

\* doc_id = hashlib.md5(doc.metadata["source"].encode()).hexdigest()
DocId(doc) == MD5(Lookup(doc.metadata, "source").val)

\* zip(ids, embeddings, metadata): stops at the shortest argument.
Zip(ids, embeddings, metadata) ==
    [j \in 1..Min(Len(ids), Min(Len(embeddings), Len(metadata))) |->
        [metadata |-> metadata[j], id |-> ids[j], vector |-> embeddings[j]]]

(* --------------------------- the vector store ------------------------- *)

\* pinecone.create_index(name, dimension): creates the index if absent.
create_index(ixs, name, dimension) ==
    IF \E ix \in ixs : ix.name = name
    THEN ixs
    ELSE ixs \cup {[name |-> name, dimension |-> dimension]}

\* pinecone.get_index(name, namespace=ns): the namespace-qualifying
\* parameters handed on to index.upsert.
get_index(name, ns) == [index |-> name, namespace |-> ns]

NoRecords == [x \in {} |-> TRUE]

Put(recs, t) ==
    [x \in (DOMAIN recs) \cup {t.id} |->
        IF x = t.id THEN [metadata |-> t.metadata, vector |-> t.vector] ELSE recs[x]]

RECURSIVE UpsertFrom(_, _, _)
UpsertFrom(recs, vectors, j) ==
    IF j > Len(vectors) THEN recs ELSE UpsertFrom(Put(recs, vectors[j]), vectors, j + 1)

\* index.upsert(vectors=..., namespace=ns): writes or overwrites each triple,
\* in order, by identifier equality within the namespace.
Upsert(recs, vectors) == UpsertFrom(recs, vectors, 1)

(* ------------------------- the embedding calls ------------------------ *)

Texts(docs) == [j \in 1..Len(docs) |-> docs[j].page_content]

\* The metadata dicts handed over unfiltered.
MetadatasRaw(docs) == [j \in 1..Len(docs) |-> docs[j].metadata]

\* metadata = [{...sanitized...} for doc in docs]
Metadatas(docs) == [j \in 1..Len(docs) |-> Sanitize(docs[j].metadata)]

\* for i in range(0, len(all_texts), BATCH_SIZE): one call per chunk,
\* all_embeddings.extend(batch_embeddings).
RECURSIVE BatchLoop(_, _, _, _)
BatchLoop(all_texts, i, acc, failAt) ==
    IF i >= Len(all_texts) THEN acc
    ELSE LET batch_texts == Slice(all_texts, i, i + BATCH_SIZE)
             calls == Append(acc.calls, batch_texts)
         IN IF Len(calls) = failAt
            THEN [embeddings |-> acc.embeddings, calls |-> calls, raised |-> TRUE]
            ELSE BatchLoop(all_texts, i + BATCH_SIZE,
                           [embeddings |-> acc.embeddings \o Create(batch_texts),
                            calls |-> calls,
                            raised |-> FALSE],
                           failAt)

\* Every text in one call, whatever the number of texts.
BatchedCallsUnbatched(all_texts, failAt) ==
    [embeddings |-> IF failAt = 1 THEN <<>> ELSE Create(all_texts),
     calls |-> <<all_texts>>,
     raised |-> failAt = 1]

\* failAt = k > 0: the provider raises on the k-th call of the run.
BatchedCalls(all_texts, failAt) ==
    BatchLoop(all_texts, 0, [embeddings |-> <<>>, calls |-> <<>>, raised |-> FALSE], failAt)

\* The texts sent in chunks of BATCH_SIZE.
SingleCallBatched(texts, failAt) == BatchedCalls(texts, failAt)

\* One call with every text (github_issues_embeddings, docs_embedding):
\* client.embeddings.create(model=..., input=texts).
SingleCall(texts, failAt) ==
    [embeddings |-> IF failAt = 1 THEN <<>> ELSE Create(texts),
     calls |-> <<texts>>,
     raised |-> failAt = 1]

(* ------------------------ one run of each asset ----------------------- *)

\* What a run that ends in an exception returns: nothing.
NoResult == [raised |-> TRUE]

\* The observable record of one run: the provider calls made (calls), the
\* vectors obtained from the provider (embeddings), whether index.upsert was
\* called and with which triples (vectors), the exception that left the
\* function ("none" when it returned) and the MaterializeResult metadata.
IssuesRun(docs, failAt) ==
    LET ns == get_index(INDEX_NAME, GITHUB_NAMESPACE)
        texts == Texts(docs)
        emb == SingleCall(texts, failAt)
        metadata == Metadatas(docs)
    IN [embeddings |-> emb.embeddings,
        namespace |-> ns.namespace,
        vectors |-> IF emb.raised THEN <<>>
                    ELSE Zip(SeqIds(Len(texts)), emb.embeddings, metadata),
        docs |-> docs,
        calls |-> emb.calls,
        step |-> "github_issues_embeddings",
        providerRaised |-> emb.raised,
        exception |-> IF emb.raised THEN "EmbeddingError" ELSE "none",
        upsertCalled |-> ~emb.raised,
        result |-> IF emb.raised THEN NoResult
                   ELSE [number_of_issues |-> Len(docs)]]

\* The batch loop wrapped in try/except: what was embedded before the
\* provider raised is upserted and the run returns.
DiscussionsRunPartial(docs, failAt) ==
    LET ns == get_index(INDEX_NAME, GITHUB_NAMESPACE)
        all_texts == Texts(docs)
        emb == BatchedCalls(all_texts, failAt)
        metadata == Metadatas(docs)
    IN [embeddings |-> emb.embeddings,
        namespace |-> ns.namespace,
        vectors |-> Zip(SeqIds(Len(all_texts)), emb.embeddings, metadata),
        docs |-> docs,
        calls |-> emb.calls,
        step |-> "github_discussions_embeddings",
        providerRaised |-> emb.raised,
        exception |-> "none",
        upsertCalled |-> TRUE,
        result |-> [number_of_discussions |-> Len(docs)]]

\* Discussion ids given a prefix of their own: "d0", "d1", ...
DiscussionsRunOwnIds(docs, failAt) ==
    LET ns == get_index(INDEX_NAME, GITHUB_NAMESPACE)
        all_texts == Texts(docs)
        emb == BatchedCalls(all_texts, failAt)
        metadata == Metadatas(docs)
        ids == [j \in 1..Len(all_texts) |-> "d" \o Str(j - 1)]
    IN [embeddings |-> emb.embeddings,
        namespace |-> ns.namespace,
        vectors |-> IF emb.raised THEN <<>> ELSE Zip(ids, emb.embeddings, metadata),
        docs |-> docs,
        calls |-> emb.calls,
        step |-> "github_discussions_embeddings",
        providerRaised |-> emb.raised,
        exception |-> IF emb.raised THEN "EmbeddingError" ELSE "none",
        upsertCalled |-> ~emb.raised,
        result |-> IF emb.raised THEN NoResult
                   ELSE [number_of_discussions |-> Len(docs)]]

DiscussionsRun(docs, failAt) ==
    LET ns == get_index(INDEX_NAME, GITHUB_NAMESPACE)
        all_texts == Texts(docs)
        emb == BatchedCalls(all_texts, failAt)
        metadata == Metadatas(docs)
    IN [embeddings |-> emb.embeddings,
        namespace |-> ns.namespace,
        vectors |-> IF emb.raised THEN <<>>
                    ELSE Zip(SeqIds(Len(all_texts)), emb.embeddings, metadata),
        docs |-> docs,
        calls |-> emb.calls,
        step |-> "github_discussions_embeddings",
        providerRaised |-> emb.raised,
        exception |-> IF emb.raised THEN "EmbeddingError" ELSE "none",
        upsertCalled |-> ~emb.raised,
        result |-> IF emb.raised THEN NoResult
                   ELSE [number_of_discussions |-> Len(docs)]]

DocsRun(docs, failAt) ==
    LET ns == get_index(INDEX_NAME, DOCS_NAMESPACE)
        texts == Texts(docs)
        emb == SingleCall(texts, failAt)
        bad == {j \in 1..Len(docs) : DocIdRaises(docs[j])}
        first == CHOOSE j \in bad : \A m \in bad : j <= m
        ok == ~emb.raised /\ bad = {}
        metadatas == Metadatas(docs)
        doc_ids == [j \in 1..Len(docs) |-> DocId(docs[j])]
    IN [embeddings |-> emb.embeddings,
        namespace |-> ns.namespace,
        vectors |-> IF ok THEN Zip(doc_ids, emb.embeddings, metadatas) ELSE <<>>,
        docs |-> docs,
        calls |-> emb.calls,
        step |-> "docs_embedding",
        providerRaised |-> emb.raised,
        exception |-> IF emb.raised THEN "EmbeddingError"
                      ELSE IF bad = {} THEN "none"
                      ELSE IF HasKey(docs[first].metadata, "source") THEN "AttributeError"
                      ELSE "KeyError",
        upsertCalled |-> ok,
        result |-> IF ~ok THEN NoResult
                   ELSE [documents_embedded |-> Len(docs),
                         embedding_dimension |->
                             IF Len(emb.embeddings) > 0 THEN emb.embeddings[1].dim ELSE 0,
                         urls_processed |->
                             [j \in 1..Len(docs) |-> Lookup(docs[j].metadata, "source").val]]]

(* ------------------------------- inputs ------------------------------- *)

Entry(k, type, val) == [v |-> [type |-> type, val |-> val], k |-> k]

docA ==
    [metadata |-> <<Entry("source", "str", "u1"), Entry("title", "str", "A"),
                    Entry("labels", "list", "['bug']")>>,
     page_content |-> "a"]

\* Same source URL as docA, other content.
docB ==
    [metadata |-> <<Entry("comments", "int", "7"), Entry("source", "str", "u1"),
                    Entry("closed_at", "NoneType", "None")>>,
     page_content |-> "b"]

docC ==
    [metadata |-> <<Entry("draft", "bool", "True"), Entry("author", "dict", "{'login': 'x'}"),
                    Entry("score", "float", "0.5"), Entry("source", "str", "u2")>>,
     page_content |-> "c"]

\* No 'source' entry.
docN ==
    [metadata |-> <<Entry("title", "str", "D"), Entry("state", "NoneType", "None")>>,
     page_content |-> "d"]

PageDoc(i) ==
    [metadata |-> <<Entry("source", "str", "p" \o Str(i)), Entry("position", "int", Str(i))>>,
     page_content |-> "page" \o Str(i)]

RECURSIVE Pages(_)
Pages(n) == IF n = 0 THEN <<>> ELSE Append(Pages(n - 1), PageDoc(n))

\* The document lists a run may be given: empty, short lists that repeat and
\* share source URLs, and lists around multiples of BATCH_SIZE.
InputLists ==
    {<<>>, <<docA>>, <<docA, docB, docC>>, <<docC, docN, docA>>,
     Pages(BATCH_SIZE), Pages(BATCH_SIZE + 5), Pages(2 * BATCH_SIZE + 1)}

\* Which provider call of a run raises: none (0) or the k-th. A run of
\* github_issues_embeddings or docs_embedding makes one call.
FailAts == 0..MaxCalls

SingleCallFailAts == 0..Min(1, MaxCalls)

(* ------------------------------- actions ------------------------------ *)

NotCleaned == [done |-> FALSE, value |-> <<>>]

Init ==
    /\ indexes = {}
    /\ store = [ns \in Namespaces |-> NoRecords]
    /\ log = <<>>
    /\ doc_metadata = <<>>
    /\ meta = NotCleaned

\* index.upsert(vectors=zip(...), **namespace_kwargs), reached only when no
\* exception has left the function before it.
Written(st, run) ==
    IF run.upsertCalled
    THEN [st EXCEPT ![run.namespace] = Upsert(@, run.vectors)]
    ELSE st

github_issues_embeddings ==
    /\ Len(log) < MaxRuns
    /\ \E github_issues_raw \in InputLists, failAt \in SingleCallFailAts :
         \E run \in {IssuesRun(github_issues_raw, failAt)} :
            /\ indexes' = create_index(indexes, INDEX_NAME, EMBED_DIM)
            /\ store' = Written(store, run)
            /\ log' = Append(log, run)
            /\ UNCHANGED <<doc_metadata, meta>>

github_discussions_embeddings ==
    /\ Len(log) < MaxRuns
    /\ \E github_discussions_raw \in InputLists, failAt \in FailAts :
         \E run \in {DiscussionsRun(github_discussions_raw, failAt)} :
            /\ indexes' = create_index(indexes, INDEX_NAME, EMBED_DIM)
            /\ store' = Written(store, run)
            /\ log' = Append(log, run)
            /\ UNCHANGED <<doc_metadata, meta>>

docs_embedding ==
    /\ Len(log) < MaxRuns
    /\ \E docs_scrape_raw \in InputLists, failAt \in SingleCallFailAts :
         \E run \in {DocsRun(docs_scrape_raw, failAt)} :
            /\ indexes' = create_index(indexes, INDEX_NAME, EMBED_DIM)
            /\ store' = Written(store, run)
            /\ log' = Append(log, run)
            /\ UNCHANGED <<doc_metadata, meta>>

Next ==
    \/ github_issues_embeddings
    \/ github_discussions_embeddings
    \/ docs_embedding

Spec == Init /\ [][Next]_vars

(* ------------------- the sanitizing comprehension alone --------------- *)

PythonTypes == {"str", "int", "float", "bool", "list", "dict", "NoneType"}

DictKeys == {"k" \o Str(i) : i \in 1..MaxEntries}

DictEntries == {Entry(k, t, "v") : k \in DictKeys, t \in PythonTypes}

\* Every dict of at most MaxEntries entries: keys are unique, values are of
\* any Python type.
Dicts ==
    {d \in UNION {[1..n -> DictEntries] : n \in 0..MaxEntries} :
        \A i, j \in 1..Len(d) : d[i].k = d[j].k => i = j}

SanitizeInit ==
    /\ indexes = {}
    /\ store = [ns \in Namespaces |-> NoRecords]
    /\ log = <<>>
    /\ doc_metadata \in Dicts
    /\ meta = NotCleaned

\* meta = {k: v for k, v in doc.metadata.items() if isinstance(v, (...))}
CleanMetadata ==
    /\ ~meta.done
    /\ meta' = [done |-> TRUE, value |-> Sanitize(doc_metadata)]
    /\ UNCHANGED <<indexes, store, log, doc_metadata>>

SanitizeSpec == SanitizeInit /\ [][CleanMetadata]_vars

(* ======================== the claims, restated ======================== *)
(* The definitions below state what is expected of the code in terms of    *)
(* the documents a run was given, the calls it made and the store.         *)

GithubSteps == {"github_issues_embeddings", "github_discussions_embeddings"}

\* The entries of a dict whose value is a str, int, float or bool, in order.
RECURSIVE PrimitiveEntries(_)
PrimitiveEntries(d) ==
    IF Len(d) = 0 THEN <<>>
    ELSE (IF Head(d).v.type \in {"str", "int", "float", "bool"} THEN <<Head(d)>> ELSE <<>>)
         \o PrimitiveEntries(Tail(d))

HasSource(doc) == \E j \in 1..Len(doc.metadata) : doc.metadata[j].k = "source"

SourceOf(doc) ==
    LET j == CHOOSE j \in 1..Len(doc.metadata) : doc.metadata[j].k = "source"
    IN doc.metadata[j].v.val

\* The record a document is expected to leave in the store.
Content(doc) ==
    [metadata |-> PrimitiveEntries(doc.metadata),
     vector |-> [of |-> doc.page_content, dim |-> 1536]]

TextsOf(run) == [j \in 1..Len(run.docs) |-> run.docs[j].page_content]

VectorsOf(texts) == [j \in 1..Len(texts) |-> [of |-> texts[j], dim |-> 1536]]

RECURSIVE Flatten(_)
Flatten(seqs) == IF Len(seqs) = 0 THEN <<>> ELSE Head(seqs) \o Flatten(Tail(seqs))

\* The runs that wrote to dagster-github.
GithubWrites == {r \in 1..Len(log) : log[r].step \in GithubSteps /\ log[r].upsertCalled}

\* The runs that wrote to dagster-docs.
DocsWrites == {r \in 1..Len(log) : log[r].step = "docs_embedding" /\ log[r].upsertCalled}

\* What a run of a GitHub asset over docs leaves in an empty namespace.
Alone(docs) ==
    [id \in {ToString(i) : i \in 0..(Len(docs) - 1)} |->
        Content(docs[1 + CHOOSE i \in 0..(Len(docs) - 1) : ToString(i) = id])]

(* ---------------------------------- C1 --------------------------------- *)

\* C1: in each of the three embedding steps, when the provider returns one
\* vector per text in input order (and, for docs_embedding, every document
\* has a source URL), upsert is called with exactly N triples for N input
\* documents, and triple i carries the id of document i (str(i) for the
\* GitHub steps, the MD5 of the source URL for docs_embedding), the embedding
\* of its text and its sanitized metadata.
C1_UpsertAligned ==
    \A r \in 1..Len(log) :
        LET run == log[r]
            N == Len(run.docs)
        IN /\ (/\ ~run.providerRaised
               /\ run.step = "docs_embedding" => \A i \in 1..N : HasSource(run.docs[i]))
              => run.upsertCalled
           /\ run.upsertCalled =>
                /\ Len(run.vectors) = N
                /\ \A i \in 1..N :
                     /\ run.vectors[i].id =
                            IF run.step = "docs_embedding"
                            THEN "md5(" \o SourceOf(run.docs[i]) \o ")"
                            ELSE ToString(i - 1)
                     /\ run.vectors[i].vector = [of |-> run.docs[i].page_content, dim |-> 1536]
                     /\ run.vectors[i].metadata = PrimitiveEntries(run.docs[i].metadata)

\* A docs_embedding run and a batched discussions run have both upserted:
\* one with several documents whose metadata loses entries, one with more
\* documents than two batches hold.
C1_Witness ==
    /\ \E r \in 1..Len(log) :
         /\ log[r].step = "docs_embedding"
         /\ log[r].upsertCalled
         /\ Len(log[r].vectors) = 3
         /\ \E i \in 1..3 : Len(log[r].vectors[i].metadata) < Len(log[r].docs[i].metadata)
    /\ \E r \in 1..Len(log) :
         /\ log[r].step = "github_discussions_embeddings"
         /\ log[r].upsertCalled
         /\ Len(log[r].vectors) > 40

(* ---------------------------------- C2 --------------------------------- *)

\* C2: a run of github_discussions_embeddings over N texts in which the
\* provider answers every call makes exactly ceil(N / 20) calls; call k
\* receives texts[(k-1)*20 .. k*20 - 1] (zero-based), so every chunk has at
\* most 20 texts and only the last may have fewer; and the concatenation of
\* the returned chunks is the embeddings of the N texts in input order.
C2_BatchedCalls ==
    \A r \in 1..Len(log) :
        LET run == log[r]
            texts == TextsOf(run)
            N == Len(texts)
            B == 20
        IN (run.step = "github_discussions_embeddings" /\ ~run.providerRaised) =>
             /\ Len(run.calls) = (N + B - 1) \div B
             /\ \A k \in 1..Len(run.calls) :
                  /\ run.calls[k] = SubSeq(texts, (k - 1) * B + 1, IF k * B < N THEN k * B ELSE N)
                  /\ Len(run.calls[k]) <= B
                  /\ Len(run.calls[k]) >= 1
                  /\ k < Len(run.calls) => Len(run.calls[k]) = B
             /\ Flatten(run.calls) = texts
             /\ run.embeddings = VectorsOf(texts)
             /\ run.embeddings = Flatten([k \in 1..Len(run.calls) |-> VectorsOf(run.calls[k])])

\* A discussions run made three calls, the last with a single text.
C2_Witness ==
    \E r \in 1..Len(log) :
        /\ log[r].step = "github_discussions_embeddings"
        /\ ~log[r].providerRaised
        /\ Len(log[r].calls) = 3
        /\ Len(log[r].calls[3]) = 1
        /\ Len(log[r].embeddings) = 41

(* ---------------------------------- C3 --------------------------------- *)

\* C3, as stated: docs_embedding given 25 documents calls the provider
\* exactly twice, with 20 and then 5 texts, and the 25 embeddings come back
\* in document order.
C3_TwoCallsFor25 ==
    \A r \in 1..Len(log) :
        LET run == log[r]
        IN (run.step = "docs_embedding" /\ Len(run.docs) = 25 /\ ~run.providerRaised) =>
             /\ Len(run.calls) = 2
             /\ Len(run.calls[1]) = 20
             /\ Len(run.calls[2]) = 5
             /\ run.embeddings = VectorsOf(TextsOf(run))

\* C3, amended: docs_embedding given 25 documents calls the provider exactly
\* once, with all 25 texts in document order, and the 25 embeddings come
\* back in document order.
C3_OneCallFor25 ==
    \A r \in 1..Len(log) :
        LET run == log[r]
        IN (run.step = "docs_embedding" /\ Len(run.docs) = 25 /\ ~run.providerRaised) =>
             /\ Len(run.calls) = 1
             /\ run.calls[1] = TextsOf(run)
             /\ Len(run.calls[1]) = 25
             /\ run.embeddings = VectorsOf(TextsOf(run))

\* docs_embedding has run to its end on 25 documents.
C3_Witness ==
    \E r \in 1..Len(log) :
        /\ log[r].step = "docs_embedding"
        /\ Len(log[r].docs) = 25
        /\ log[r].exception = "none"
        /\ Len(log[r].vectors) = 25

(* ---------------------------------- C4 --------------------------------- *)

\* C4: in each of the three embedding steps an empty document list makes no
\* call to the provider, upserts zero records and returns metadata whose
\* counts are zero.
C4_EmptyInputNoCalls ==
    \A r \in 1..Len(log) :
        LET run == log[r]
        IN Len(run.docs) = 0 =>
             /\ Len(run.calls) = 0
             /\ run.upsertCalled
             /\ Len(run.vectors) = 0
             /\ run.step = "github_issues_embeddings" => run.result.number_of_issues = 0
             /\ run.step = "github_discussions_embeddings" =>
                    run.result.number_of_discussions = 0
             /\ run.step = "docs_embedding" =>
                    /\ run.result.documents_embedded = 0
                    /\ run.result.embedding_dimension = 0
                    /\ Len(run.result.urls_processed) = 0

(* ---------------------------------- C5 --------------------------------- *)

\* C5: the sanitizing comprehension returns, for every metadata dict
\* (values of any type, lists, dicts and None included), exactly the entries
\* whose value is a str, int, float or bool, in the dict's key order, keys
\* and values unchanged; applied to its own result it returns that result.
C5_SanitizeExact ==
    meta.done =>
        LET M == doc_metadata
            R == meta.value
            keep == {i \in 1..Len(M) : M[i].v.type \in {"str", "int", "float", "bool"}}
            nth(j) == CHOOSE i \in keep : Cardinality({x \in keep : x < i}) = j - 1
        IN /\ DOMAIN R = 1..Cardinality(keep)
           /\ \A j \in 1..Cardinality(keep) : R[j] = M[nth(j)]
           /\ Sanitize(R) = R

\* A dict of three entries, a dict value, a bool and a None in that order,
\* has been sanitized to the bool entry alone.
C5_Witness ==
    /\ meta.done
    /\ Len(doc_metadata) = 3
    /\ doc_metadata[1].v.type = "dict"
    /\ doc_metadata[2].v.type = "bool"
    /\ doc_metadata[3].v.type = "NoneType"
    /\ meta.value = <<doc_metadata[2]>>

(* ---------------------------------- C6 --------------------------------- *)

\* C6: after any runs, the namespace dagster-docs holds exactly one record
\* per distinct source URL that a successful docs_embedding run was given;
\* two documents get the same id exactly when they have the same source URL,
\* in one run or across runs; and the record of a URL holds the vector and
\* the sanitized metadata of the document with that URL upserted last.
C6_DocsUpsertIdempotent ==
    LET W == DocsWrites
        recs == store["dagster-docs"]
    IN \* url[r][i]: the source URL of document i of run r (bound once)
       \A url \in {[r \in W |-> [i \in 1..Len(log[r].docs) |-> SourceOf(log[r].docs[i])]]} :
       \A urlsOf \in {[r \in W |-> {url[r][i] : i \in 1..Len(log[r].docs)}]} :
       \* every <<URL, id>> pair ever upserted
       \A pairs \in {UNION {{<<url[r][i], log[r].vectors[i].id>> : i \in 1..Len(log[r].docs)}
                            : r \in W}} :
          LET urls == {p[1] : p \in pairs}
              ids == {p[2] : p \in pairs}
              \* document i of run r is the last one upserted with its URL
              last(r, i) ==
                  /\ \A r2 \in W : r2 > r => url[r][i] \notin urlsOf[r2]
                  /\ \/ Cardinality(urlsOf[r]) = Len(log[r].docs)
                     \/ \A j \in (i + 1)..Len(log[r].docs) : url[r][j] # url[r][i]
          IN \* one id per URL and one URL per id
             /\ Cardinality(pairs) = Cardinality(urls)
             /\ Cardinality(pairs) = Cardinality(ids)
             \* one record per URL
             /\ DOMAIN recs = ids
             /\ Cardinality(DOMAIN recs) = Cardinality(urls)
             /\ \A r \in W : \A i \in 1..Len(log[r].docs) :
                  last(r, i) => recs[log[r].vectors[i].id] = Content(log[r].docs[i])

\* Two successful docs_embedding runs were given documents with the same
\* source URL and different content, and a document with another URL.
C6_Witness ==
    \E r1 \in DocsWrites : \E r2 \in DocsWrites :
        /\ r1 < r2
        /\ \E i \in 1..Len(log[r1].docs) : \E j \in 1..Len(log[r2].docs) :
             /\ SourceOf(log[r1].docs[i]) = SourceOf(log[r2].docs[j])
             /\ log[r1].docs[i].page_content # log[r2].docs[j].page_content
        /\ Cardinality(DOMAIN store["dagster-docs"]) = 2

(* ---------------------------------- C7 --------------------------------- *)

\* C7: a run in which an embedding call raises (in the batched step also a
\* later call, after earlier chunks were embedded), or in which
\* docs_embedding meets a document without a 'source' entry, ends in that
\* exception: upsert is not called, no result is returned, and every record
\* of the store is as it was before the run.
C7_FailureWritesNothing ==
    [][Len(log') = Len(log) + 1 =>
          LET run == log'[Len(log')]
              failed ==
                  \/ run.providerRaised
                  \/ /\ run.step = "docs_embedding"
                     /\ \E i \in 1..Len(run.docs) : ~HasSource(run.docs[i])
          IN failed =>
               /\ run.exception # "none"
               /\ ~run.upsertCalled
               /\ Len(run.vectors) = 0
               /\ run.result = NoResult
               /\ store' = store]_vars

\* The third embedding call of a discussions run raised after two chunks had
\* been embedded, over a namespace that held records.
C7_Witness ==
    /\ Len(log) = 2
    /\ log[2].step = "github_discussions_embeddings"
    /\ log[2].providerRaised
    /\ Len(log[2].calls) = 3
    /\ Len(log[2].embeddings) = 40
    /\ ~log[2].upsertCalled
    /\ Cardinality(DOMAIN store["dagster-github"]) = 3

(* ---------------------------------- C8 --------------------------------- *)

\* C8: when a GitHub step has written N documents and the next write to
\* dagster-github is a run of the same step with M documents, then after it
\* ids '0'..'min(N,M)-1' hold the later run's content, ids 'M'..'N-1' (when
\* M < N) still hold the earlier run's content, and the namespace equals
\* what the later run alone would have produced only if M >= N (and it does
\* equal it when M >= N and the earlier run was the first write).
C8_SequentialIdsNotStable ==
    \A r2 \in GithubWrites : \A r1 \in GithubWrites :
        (/\ r2 = Len(log)
         /\ r1 < r2
         /\ log[r1].step = log[r2].step
         /\ \A r \in GithubWrites : ~(r1 < r /\ r < r2)) =>
            LET N == Len(log[r1].docs)
                M == Len(log[r2].docs)
                recs == store["dagster-github"]
            IN /\ \A i \in 0..(Min(N, M) - 1) :
                    /\ ToString(i) \in DOMAIN recs
                    /\ recs[ToString(i)] = Content(log[r2].docs[i + 1])
               /\ \A i \in M..(N - 1) :
                    /\ ToString(i) \in DOMAIN recs
                    /\ recs[ToString(i)] = Content(log[r1].docs[i + 1])
               /\ recs = Alone(log[r2].docs) => M >= N
               /\ (M >= N /\ \A r \in GithubWrites : r >= r1) => recs = Alone(log[r2].docs)

\* github_issues_embeddings wrote three documents and then one: id '0'
\* holds the later document, ids '1' and '2' the earlier run's.
C8_Witness ==
    /\ Len(log) = 2
    /\ GithubWrites = {1, 2}
    /\ log[1].step = "github_issues_embeddings"
    /\ log[2].step = "github_issues_embeddings"
    /\ Len(log[1].docs) = 3
    /\ Len(log[2].docs) = 1
    /\ DOMAIN store["dagster-github"] = {"0", "1", "2"}
    /\ store["dagster-github"]["2"] = Content(log[1].docs[3])
    /\ store["dagster-github"] # Alone(log[2].docs)

(* ---------------------------------- C9 --------------------------------- *)

\* The records of a namespace, none when nothing was ever written to it.
RecordsOf(st, ns) == IF ns \in DOMAIN st THEN st[ns] ELSE [x \in {} |-> TRUE]

\* C9: a docs_embedding run writes to namespace dagster-docs of index
\* dagster-knowledge and leaves every record of dagster-github as it was; a
\* run of either GitHub step writes to dagster-github and leaves every
\* record of dagster-docs as it was.
C9_NamespacesIsolated ==
    [][Len(log') = Len(log) + 1 =>
          LET run == log'[Len(log')]
          IN /\ \A ix \in indexes' : ix.name = "dagster-knowledge"
             /\ run.step = "docs_embedding" =>
                    /\ run.namespace = "dagster-docs"
                    /\ RecordsOf(store', "dagster-github") = RecordsOf(store, "dagster-github")
             /\ run.step \in GithubSteps =>
                    /\ run.namespace = "dagster-github"
                    /\ RecordsOf(store', "dagster-docs") = RecordsOf(store, "dagster-docs")]_vars

\* Both namespaces hold records: a GitHub step wrote after docs_embedding.
C9_Witness ==
    /\ Len(log) = 2
    /\ 1 \in DocsWrites
    /\ 2 \in GithubWrites
    /\ Cardinality(DOMAIN store["dagster-docs"]) = 2
    /\ Cardinality(DOMAIN store["dagster-github"]) = 3

(* ---------------------------------- C10 -------------------------------- *)

\* C10: after any runs of the two GitHub steps, dagster-github holds exactly
\* as many records as the largest document list either step has written
\* (ids '0'..'max-1'), not the sum, and the record with id i holds the
\* content of position i of the most recent of those runs that had more
\* than i documents.
C10_IssuesAndDiscussionsOverwrite ==
    LET G == GithubWrites
        sizes == {Len(log[r].docs) : r \in G} \cup {0}
        most == CHOOSE n \in sizes : \A k \in sizes : k <= n
        recs == store["dagster-github"]
        writer(i) == CHOOSE r \in G :
                        /\ Len(log[r].docs) > i
                        /\ \A x \in G : Len(log[x].docs) > i => x <= r
    IN /\ Cardinality(DOMAIN recs) = most
       /\ DOMAIN recs = {ToString(i) : i \in 0..(most - 1)}
       /\ \A i \in 0..(most - 1) : recs[ToString(i)] = Content(log[writer(i)].docs[i + 1])

\* Issues wrote three documents and discussions then wrote one: the
\* namespace holds three records, not four, id '0' a discussion and id '2'
\* an issue.
C10_Witness ==
    /\ Len(log) = 2
    /\ GithubWrites = {1, 2}
    /\ log[1].step = "github_issues_embeddings"
    /\ log[2].step = "github_discussions_embeddings"
    /\ Len(log[1].docs) = 3
    /\ Len(log[2].docs) = 1
    /\ Cardinality(DOMAIN store["dagster-github"]) = 3
    /\ store["dagster-github"]["0"] = Content(log[2].docs[1])
    /\ store["dagster-github"]["2"] = Content(log[1].docs[3])

====
